---- MODULE Spec2Model ----
(***************************************************************************)
(* Model of the stress-testing engine (stress_testing package):            *)
(* RiskArray / Factor / StressScenario, the scenario builders and          *)
(* StressTestEngine.run_scenario and run_scenarios with their helpers,     *)
(* the tabular form of the results included.                               *)
(*                                                                         *)
(* Numbers.  The program computes with Python/numpy floats.  The model     *)
(* computes with exact rationals <<n, d>> (d > 0, lowest terms), so        *)
(* rounding error is abstracted away; everything else (order of            *)
(* evaluation, clamping, broadcasting, exceptions) follows the code.       *)
(*                                                                         *)
(* Python dicts whose insertion order the code depends on are sequences    *)
(* of <<key, value>> pairs with distinct keys; dicts used only by key      *)
(* are TLA+ functions.                                                     *)
(*                                                                         *)
(* Records.  A record constructor lists its fields in the order in which   *)
(* the field names first occur in this module: that is the order in which  *)
(* TLC stores a record, so a record value is in normal form as built and   *)
(* TLC's workers never reorder a value they share.                         *)
(***************************************************************************)
EXTENDS Integers, Sequences, FiniteSets, TLC

(***************************************************************************)
(* Exact rational arithmetic                                               *)
(***************************************************************************)
Abs(n) == IF n < 0 THEN -n ELSE n

RECURSIVE GCD(_, _)
GCD(a, b) == IF b = 0 THEN a ELSE GCD(b, a % b)

\* the rational n/d in lowest terms with a positive denominator (d # 0)
Norm(n, d) ==
    LET g == GCD(Abs(n), Abs(d))
        s == IF d < 0 THEN -1 ELSE 1
    IN  << (s * n) \div g, (s * d) \div g >>

R(n) == << n, 1 >>
Zero == R(0)
One == R(1)

RAdd(x, y) == Norm(x[1] * y[2] + y[1] * x[2], x[2] * y[2])
RNeg(x) == << -x[1], x[2] >>
RSub(x, y) == RAdd(x, RNeg(y))
RMul(x, y) == Norm(x[1] * y[1], x[2] * y[2])
\* x / y for y # 0
RDiv(x, y) == Norm(x[1] * y[2], x[2] * y[1])
RAbs(x) == << Abs(x[1]), x[2] >>
RLt(x, y) == x[1] * y[2] < y[1] * x[2]
RLe(x, y) == x[1] * y[2] <= y[1] * x[2]

\* Python's max(a, b): the first argument unless the second is larger
PyMax(a, b) == IF RLt(a, b) THEN b ELSE a

(***************************************************************************)
(* Outcomes of a computation that may raise                                *)
(***************************************************************************)
Ok(v) == [ok |-> TRUE, val |-> v]
Raise(e) == [ok |-> FALSE, err |-> e]

(***************************************************************************)
(* Ordered dicts as sequences of <<key, value>> pairs                      *)
(***************************************************************************)
DictKeys(d) == { d[i][1] : i \in 1..Len(d) }
DictHas(d, k) == k \in DictKeys(d)
DictGet(d, k) == d[CHOOSE i \in 1..Len(d) : d[i][1] = k][2]
\* d[k] = v : an existing key keeps its position, a new key goes last
DictSet(d, k, v) ==
    IF DictHas(d, k)
    THEN [i \in 1..Len(d) |-> IF d[i][1] = k THEN << k, v >> ELSE d[i]]
    ELSE Append(d, << k, v >>)

RECURSIVE DictFromPairs(_)
DictFromPairs(ps) ==
    IF ps = << >> THEN << >>
    ELSE LET n == Len(ps)
         IN  DictSet(DictFromPairs(SubSeq(ps, 1, n - 1)), ps[n][1], ps[n][2])

(***************************************************************************)
(* core/enums.py                                                           *)
(***************************************************************************)
\* RiskDimension member name -> its .value, the instrument parameter name
RiskDimension ==
    [PRICE |-> "price", VOLATILITY |-> "volatility", TIME |-> "time",
     INTEREST_RATE |-> "interest_rate", DIVIDEND_YIELD |-> "dividend_yield"]

AggregationType == {"BY_UNDERLYING", "BY_FACTOR", "TOTAL"}

(***************************************************************************)
(* core/factor.py                                                          *)
(***************************************************************************)
\* Optional[Factor]: None
NoFactor == [none |-> TRUE]

\* Factor(name, underlying_factors); underlying_factors is a function
\* symbol -> multiplier
Factor(name, underlying_factors) ==
    [none |-> FALSE, name |-> name, underlying_factors |-> underlying_factors]

\* get_factor with 0 for an unknown symbol
get_factor_default_zero(factor, symbol) ==
    IF symbol \in DOMAIN factor.underlying_factors
    THEN factor.underlying_factors[symbol]
    ELSE Zero

\* Factor.get_factor: underlying_factors.get(symbol, 1.0)
get_factor(factor, symbol) ==
    IF symbol \in DOMAIN factor.underlying_factors
    THEN factor.underlying_factors[symbol]
    ELSE One

\* utils/factor_helpers.py
create_beta_factor(underlying_betas) == Factor("beta", underlying_betas)

create_idiosyncratic_factor(symbol, factor_value) ==
    Factor("idio_" \o symbol, (symbol :> factor_value))

(***************************************************************************)
(* core/risk_array.py                                                      *)
(***************************************************************************)
RiskArray(dimension, values, is_relative) ==
    [dimension |-> dimension, values |-> values, is_relative |-> is_relative]

\* np.arange(lo, hi) * step_pct
ArangeTimes(lo, hi, step_pct) ==
    [i \in 1..(IF hi > lo THEN hi - lo ELSE 0) |-> RMul(R(lo + i - 1), step_pct)]

\* an equidistant array that holds the base point whatever the flag
EquidistantAlwaysBase(dimension, n_up, n_down, step_pct, include_base) ==
    RiskArray(dimension,
              ArangeTimes(-n_down, 0, step_pct) \o << Zero >>
                  \o ArangeTimes(1, n_up + 1, step_pct),
              TRUE)

\* RiskArray.equidistant
equidistant(dimension, n_up, n_down, step_pct, include_base) ==
    LET up_range == ArangeTimes(1, n_up + 1, step_pct)
        down_range == ArangeTimes(-n_down, 0, step_pct)
        values == IF include_base
                  THEN down_range \o << Zero >> \o up_range
                  ELSE down_range \o up_range
    IN  RiskArray(dimension, values, TRUE)

\* RiskArray.custom
custom(dimension, values, is_relative) ==
    RiskArray(dimension, values, is_relative)

(***************************************************************************)
(* core/scenario.py                                                        *)
(***************************************************************************)
\* underlying_risk_arrays is an ordered dict symbol -> list of RiskArray;
\* None and {} are both falsy and are both the empty sequence here (the
\* code only ever tests the field's truth value before using it).
StressScenario(name, risk_arrays, factor, aggregation_type, underlying_risk_arrays) ==
    [name |-> name, factor |-> factor, risk_arrays |-> risk_arrays,
     aggregation_type |-> aggregation_type,
     underlying_risk_arrays |-> underlying_risk_arrays]

\* itertools.product(*lists): tuples in lexicographic order, the first
\* list varying slowest; the product of no lists is the one empty tuple
RECURSIVE Concat(_)
Concat(ss) == IF ss = << >> THEN << >> ELSE Head(ss) \o Concat(Tail(ss))

\* Product with the first list varying fastest
RECURSIVE ProductFirstFastest(_)
ProductFirstFastest(lists) ==
    IF lists = << >> THEN << << >> >>
    ELSE LET rest == ProductFirstFastest(Tail(lists))
             first == Head(lists)
         IN  Concat([j \in 1..Len(rest) |->
                       [i \in 1..Len(first) |-> << first[i] >> \o rest[j]]])

RECURSIVE Product(_)
Product(lists) ==
    IF lists = << >> THEN << << >> >>
    ELSE LET rest == Product(Tail(lists))
             first == Head(lists)
         IN  Concat([i \in 1..Len(first) |->
                       [j \in 1..Len(rest) |-> << first[i] >> \o rest[j]]])

\* the dict built from one combo: point[ra.dimension] = combo[i] in order
PointOfCombo(risk_arrays, combo) ==
    DictFromPairs([i \in 1..Len(risk_arrays) |->
                     << risk_arrays[i].dimension, combo[i] >>])

\* StressScenario.get_stress_points
get_stress_points(scenario) ==
    IF scenario.underlying_risk_arrays # << >>
    THEN << << << "idiosyncratic", TRUE >> >> >>
    ELSE IF Len(scenario.risk_arrays) = 1
    THEN [i \in 1..Len(scenario.risk_arrays[1].values) |->
            << << scenario.risk_arrays[1].dimension,
                  scenario.risk_arrays[1].values[i] >> >>]
    ELSE LET combos == Product([i \in 1..Len(scenario.risk_arrays) |->
                                  scenario.risk_arrays[i].values])
         IN  [c \in 1..Len(combos) |->
                PointOfCombo(scenario.risk_arrays, combos[c])]

(***************************************************************************)
(* scenarios/builders.py                                                   *)
(***************************************************************************)
build_price_stress_scenario(name, n_up, n_down, step_pct, factor) ==
    LET risk_array == equidistant("PRICE", n_up, n_down, step_pct, TRUE)
        aggregation_type ==
            IF ~factor.none /\ factor.name = "beta" THEN "BY_FACTOR"
            ELSE IF ~factor.none THEN "BY_FACTOR"
            ELSE "BY_UNDERLYING"
    IN  StressScenario(name, << risk_array >>, factor, aggregation_type, << >>)

\* price_range and vol_range are tuples (n_up, n_down, step_pct)
build_price_vol_stress_scenario(name, price_range, vol_range) ==
    LET price_array == equidistant("PRICE", price_range[1], price_range[2],
                                   price_range[3], TRUE)
        vol_array == equidistant("VOLATILITY", vol_range[1], vol_range[2],
                                 vol_range[3], TRUE)
    IN  StressScenario(name, << price_array, vol_array >>, NoFactor,
                       "BY_UNDERLYING", << >>)

(***************************************************************************)
(* scenarios/epr.py                                                        *)
(***************************************************************************)
Reverse(s) == [i \in 1..Len(s) |-> s[Len(s) + 1 - i]]

\* np.linspace(1 / n_steps, 1, n_steps) for n_steps > 0: k / n_steps
Linspace(n_steps) == [k \in 1..n_steps |-> Norm(k, n_steps)]

\* the values array build_epr_stress_scenario makes for one symbol
EprValues(epr, n_steps, include_base) ==
    IF n_steps > 0
    THEN LET fractions == Linspace(n_steps)
             up_values == [k \in 1..n_steps |-> RMul(fractions[k], epr)]
             down_values == [k \in 1..n_steps |-> RMul(RNeg(fractions[k]), epr)]
         IN  IF include_base
             THEN Reverse(down_values) \o << Zero >> \o up_values
             ELSE Reverse(down_values) \o up_values
    ELSE << RNeg(epr), epr >>

\* epr_map is an ordered dict symbol -> EPR
build_epr_stress_scenario(name, epr_map, n_steps, include_base) ==
    LET underlying_risk_arrays ==
            DictFromPairs([i \in 1..Len(epr_map) |->
                << epr_map[i][1],
                   << RiskArray("PRICE",
                                EprValues(epr_map[i][2], n_steps, include_base),
                                TRUE) >> >>])
    IN  StressScenario(name, << >>, NoFactor, "BY_UNDERLYING",
                       underlying_risk_arrays)

\* grid_spec is [kind |-> "list", fractions |-> a list] or
\* [kind |-> "dict", map |-> a function symbol -> list]
GridFractions(grid_spec, symbol) ==
    IF grid_spec.kind = "dict"
    THEN IF symbol \in DOMAIN grid_spec.map
         THEN grid_spec.map[symbol]
         ELSE << R(-1), R(1) >>
    ELSE grid_spec.fractions

build_epr_stress_scenario_custom(name, epr_map, grid_spec) ==
    LET ValuesOf(i) ==
            LET fractions == GridFractions(grid_spec, epr_map[i][1])
            IN  [k \in 1..Len(fractions) |-> RMul(fractions[k], epr_map[i][2])]
        underlying_risk_arrays ==
            DictFromPairs([i \in 1..Len(epr_map) |->
                << epr_map[i][1], << RiskArray("PRICE", ValuesOf(i), TRUE) >> >>])
    IN  StressScenario(name, << >>, NoFactor, "BY_UNDERLYING",
                       underlying_risk_arrays)

(***************************************************************************)
(* calculators/relative.py, calculators/absolute.py                        *)
(***************************************************************************)
\* RelativeStressCalculator.calculate_stressed_value
RelativeStressCalculator(base_value, stress_pct, factor) ==
    RMul(base_value, RAdd(One, RMul(stress_pct, factor)))

\* AbsoluteStressCalculator.calculate_stressed_value
AbsoluteStressCalculator(base_value, stress_value, factor) ==
    RAdd(base_value, RMul(stress_value, factor))

\* StressTestEngine.stress_calculators[key].calculate_stressed_value(...)
stress_calculators(key, base_value, stress_value, factor) ==
    IF key THEN RelativeStressCalculator(base_value, stress_value, factor)
    ELSE AbsoluteStressCalculator(base_value, stress_value, factor)

(***************************************************************************)
(* engine/stress_engine.py : helpers                                       *)
(*                                                                         *)
(* An instrument is [type |-> its class name, attrs |-> a record of its    *)
(* attributes]; hasattr(instrument, a) is  a \in DOMAIN attrs.             *)
(***************************************************************************)
hasattr(instrument, a) == a \in DOMAIN instrument.attrs

\* a grouping symbol that never looks at the underlying attribute
SymbolOnly(instrument) ==
    IF hasattr(instrument, "symbol") THEN instrument.attrs.symbol ELSE "unknown"

\* StressTestEngine._get_underlying_symbol
_get_underlying_symbol(instrument) ==
    IF hasattr(instrument, "underlying") THEN instrument.attrs.underlying
    ELSE IF hasattr(instrument, "symbol") THEN instrument.attrs.symbol
    ELSE "unknown"

\* StressTestEngine._get_instrument_params; the last probe tests the
\* attribute 'yield' and then reads dividend_yield
_get_instrument_params(instrument) ==
    LET a == instrument.attrs
        keys == (IF hasattr(instrument, "price") THEN {"price"} ELSE {})
                \cup (IF hasattr(instrument, "iv") THEN {"volatility"} ELSE {})
                \cup (IF hasattr(instrument, "dte") THEN {"time"} ELSE {})
                \cup (IF hasattr(instrument, "risk_free") THEN {"interest_rate"} ELSE {})
                \cup (IF hasattr(instrument, "yield") THEN {"dividend_yield"} ELSE {})
    IN  IF hasattr(instrument, "yield") /\ ~hasattr(instrument, "dividend_yield")
        THEN Raise("AttributeError")
        ELSE Ok([k \in keys |->
                   CASE k = "price" -> a.price
                     [] k = "volatility" -> a.iv
                     [] k = "time" -> a.dte
                     [] k = "interest_rate" -> a.risk_free
                     [] k = "dividend_yield" -> a.dividend_yield])

\* the factor multiplier _apply_stress computes
FactorValue(instrument, factor) ==
    IF ~factor.none /\ hasattr(instrument, "underlying")
    THEN get_factor(factor, instrument.attrs.underlying)
    ELSE IF ~factor.none /\ hasattr(instrument, "symbol")
    THEN get_factor(factor, instrument.attrs.symbol)
    ELSE One

\* StressOne without the floor at zero on TIME
StressOneNoFloor(stressed_params, base_params, dimension, stress_value, instrument, factor) ==
    LET param_name == RiskDimension[dimension]
        factor_value == FactorValue(instrument, factor)
    IN  IF param_name \in DOMAIN base_params
        THEN IF dimension = "TIME"
             THEN [stressed_params EXCEPT ![param_name] =
                      RSub(base_params[param_name], stress_value)]
             ELSE [stressed_params EXCEPT ![param_name] =
                      stress_calculators(TRUE, base_params[param_name],
                                         stress_value, factor_value)]
        ELSE stressed_params

\* an iteration that gives a lacking parameter the shock as its value
StressOneAddsKey(stressed_params, base_params, dimension, stress_value, instrument, factor) ==
    [k \in DOMAIN stressed_params \cup { RiskDimension[dimension] } |->
        IF k # RiskDimension[dimension] THEN stressed_params[k]
        ELSE IF k \notin DOMAIN base_params THEN stress_value
        ELSE IF dimension = "TIME"
        THEN PyMax(Zero, RSub(base_params[k], stress_value))
        ELSE stress_calculators(TRUE, base_params[k], stress_value,
                                FactorValue(instrument, factor))]

\* one iteration of the loop of _apply_stress
StressOne(stressed_params, base_params, dimension, stress_value, instrument, factor) ==
    LET param_name == RiskDimension[dimension]
        factor_value == FactorValue(instrument, factor)
    IN  IF param_name \in DOMAIN base_params
        THEN IF dimension = "TIME"
             THEN [stressed_params EXCEPT ![param_name] =
                      PyMax(Zero, RSub(base_params[param_name], stress_value))]
             ELSE [stressed_params EXCEPT ![param_name] =
                      stress_calculators(TRUE, base_params[param_name],
                                         stress_value, factor_value)]
        ELSE stressed_params

\* StressTestEngine._apply_stress
RECURSIVE ApplyLoop(_, _, _, _, _)
ApplyLoop(n, base_params, stress_point, instrument, factor) ==
    IF n = 0 THEN base_params
    ELSE StressOne(ApplyLoop(n - 1, base_params, stress_point, instrument, factor),
                   base_params, stress_point[n][1], stress_point[n][2],
                   instrument, factor)

_apply_stress(base_params, stress_point, instrument, factor) ==
    ApplyLoop(Len(stress_point), base_params, stress_point, instrument, factor)

\* the pricer of examples/basic_stress_test.py:
\*   lambda inst, **params: params['price']
equity_pricer(inst, params) ==
    IF "price" \in DOMAIN params THEN Ok(params["price"]) ELSE Raise("KeyError")

\* a fallback that indexes the mapping instead of defaulting to 0
PriceInstrumentNoDefault(models, instrument, params) ==
    IF instrument.type \in DOMAIN models
    THEN equity_pricer(instrument, params)
    ELSE IF "price" \in DOMAIN params THEN Ok(params["price"]) ELSE Raise("KeyError")

\* StressTestEngine._price_instrument; models is the pricer registry,
\* a function type name -> pricer name
_price_instrument(models, instrument, params) ==
    IF instrument.type \in DOMAIN models
    THEN equity_pricer(instrument, params)
    ELSE IF "price" \in DOMAIN params THEN Ok(params["price"]) ELSE Ok(Zero)

(***************************************************************************)
(* engine/stress_engine.py : the P&L loops                                 *)
(*                                                                         *)
(* A loop that may raise is a fold over an accumulator                     *)
(*   [ok, err, calls, out]                                                 *)
(* that stops changing once ok is FALSE.  calls is the list of the         *)
(* _apply_stress calls made so far, each a record                          *)
(*   [position, stress_point, base_params, stressed_params, priced],       *)
(* priced being the outcome of the _price_instrument call that followed.   *)
(***************************************************************************)
\* the P&L with the base value taken per unit
PnlPerUnitBase(position, stressed_value) ==
    LET stressed_total == RMul(position.quantity, stressed_value)
    IN  RSub(stressed_total, position.instrument.attrs.price)

\* the P&L of a position repriced at stressed_value
Pnl(position, stressed_value) ==
    LET base_value == RMul(position.quantity, position.instrument.attrs.price)
        stressed_total == RMul(position.quantity, stressed_value)
    IN  RSub(stressed_total, base_value)

\* the end of one iteration: the repriced value becomes a P&L entry
PnlEntry(acc, call, position, stressed_value) ==
    IF ~stressed_value.ok
    THEN [acc EXCEPT !.ok = FALSE, !.err = stressed_value.err,
                     !.calls = Append(@, call)]
    ELSE IF ~hasattr(position.instrument, "price")
    THEN [acc EXCEPT !.ok = FALSE, !.err = "AttributeError",
                     !.calls = Append(@, call)]
    ELSE [acc EXCEPT !.calls = Append(@, call),
                     !.out = Append(@, Pnl(position, stressed_value.val))]

\* the log entry of one iteration
Call(k, stress_point, base_params, stressed_params, priced) ==
    [stressed_params |-> stressed_params, base_params |-> base_params,
     stress_point |-> stress_point, position |-> k, priced |-> priced]

\* the iteration once the stressed value is known
PnlPriced(acc, k, position, stress_point, base_params, stressed_params, stressed_value) ==
    PnlEntry(acc,
             Call(k, stress_point, base_params, stressed_params, stressed_value),
             position, stressed_value)

\* the middle of one iteration: reprice at the stressed parameters
PnlReprice(acc, models, k, position, stress_point, base_params, stressed_params) ==
    PnlPriced(acc, k, position, stress_point, base_params, stressed_params,
              _price_instrument(models, position.instrument, stressed_params))

\* the start of one iteration: stress the instrument's base parameters
PnlStress(acc, models, k, position, stress_point, factor, base_params) ==
    IF ~base_params.ok
    THEN [acc EXCEPT !.ok = FALSE, !.err = base_params.err]
    ELSE PnlReprice(acc, models, k, position, stress_point, base_params.val,
                    _apply_stress(base_params.val, stress_point,
                                  position.instrument, factor))

\* the body of the loop over stress points for one position
PnlStep(acc, models, k, position, stress_point, factor) ==
    IF ~acc.ok THEN acc
    ELSE PnlStress(acc, models, k, position, stress_point, factor,
                   _get_instrument_params(position.instrument))

\* the loop over the first n stress points for one position
RECURSIVE PnlLoop(_, _, _, _, _, _, _)
PnlLoop(n, calls, models, k, position, stress_points, factor) ==
    IF n = 0 THEN [ok |-> TRUE, err |-> "", calls |-> calls, out |-> << >>]
    ELSE PnlStep(PnlLoop(n - 1, calls, models, k, position, stress_points, factor),
                 models, k, position, stress_points[n], factor)

\* StressResult(...) as built at the end of a position's iteration
StressResult(scenario_name, position, underlying, stress_points, pnl_values) ==
    [base_value |-> RMul(position.quantity, position.instrument.attrs.price),
     underlying |-> underlying,
     quantity |-> position.quantity,
     stress_points |-> stress_points,
     scenario_name |-> scenario_name,
     pnl_values |-> pnl_values,
     position_id |-> position.id,
     instrument_type |-> position.instrument.type]

(***************************************************************************)
(* StressTestEngine._calculate_aggregation                                 *)
(***************************************************************************)
\* numpy's  total += arr  on one-dimensional arrays: arr must have the
\* length of total, or length 1 (it is then broadcast)
NpIAdd(total, arr) ==
    IF Len(arr) = Len(total)
    THEN Ok([i \in 1..Len(total) |-> RAdd(total[i], arr[i])])
    ELSE IF Len(arr) = 1
    THEN Ok([i \in 1..Len(total) |-> RAdd(total[i], arr[1])])
    ELSE Raise("ValueError")

\* np.zeros_like(arr)
ZerosLike(arr) == [i \in 1..Len(arr) |-> Zero]

\* aggregated[result.underlying] += result.pnl_values, the entry being
\* created as zeros first when the underlying is new
AddToUnderlying(aggregated, underlying, sum) ==
    IF ~sum.ok THEN sum ELSE Ok(DictSet(aggregated, underlying, sum.val))

\* one iteration of the BY_UNDERLYING loop; the accumulator's dict is
\* ordered by first insertion
ByUnderlyingStep(acc, result) ==
    IF ~acc.ok THEN acc
    ELSE AddToUnderlying(acc.val, result.underlying,
             NpIAdd(IF DictHas(acc.val, result.underlying)
                    THEN DictGet(acc.val, result.underlying)
                    ELSE ZerosLike(result.pnl_values),
                    result.pnl_values))

\* the BY_UNDERLYING loop over the first n results
RECURSIVE ByUnderlyingLoop(_, _)
ByUnderlyingLoop(n, position_results) ==
    IF n = 0 THEN Ok(<< >>)
    ELSE ByUnderlyingStep(ByUnderlyingLoop(n - 1, position_results),
                          position_results[n])

\* one iteration of the TOTAL loop
TotalStep(acc, result) ==
    IF ~acc.ok THEN acc ELSE NpIAdd(acc.val, result.pnl_values)

\* the TOTAL loop over the first n results
RECURSIVE TotalLoop(_, _)
TotalLoop(n, position_results) ==
    IF n = 0 THEN Ok(ZerosLike(position_results[1].pnl_values))
    ELSE TotalStep(TotalLoop(n - 1, position_results), position_results[n])

\* aggregated = {'total': total}
TotalBucket(total) ==
    IF ~total.ok THEN total ELSE Ok(<< << "total", total.val >> >>)

_calculate_aggregation(position_results, aggregation_type) ==
    IF aggregation_type = "BY_UNDERLYING"
    THEN ByUnderlyingLoop(Len(position_results), position_results)
    ELSE IF aggregation_type = "TOTAL"
    THEN IF position_results = << >> THEN Raise("IndexError")
         ELSE TotalBucket(TotalLoop(Len(position_results), position_results))
    ELSE Ok(<< >>)

(***************************************************************************)
(* What a call of run_scenario leaves behind:                              *)
(*   [status |-> "ok", calls, scenario_name, stress_points,                *)
(*    position_results, aggregation_results]   a returned ScenarioResults  *)
(*   [status |-> "raised", calls, error]       an exception propagated     *)
(***************************************************************************)
Returned(calls, scenario_name, stress_points, position_results, aggregation_results) ==
    [calls |-> calls, stress_points |-> stress_points,
     scenario_name |-> scenario_name, position_results |-> position_results,
     aggregation_results |-> aggregation_results, status |-> "ok"]

Raised(calls, error) == [calls |-> calls, status |-> "raised", error |-> error]

\* ScenarioResults(...) from the aggregation's outcome
ScenarioResults(scenario, calls, stress_points, position_results, aggregation_results) ==
    IF ~aggregation_results.ok
    THEN Raised(calls, aggregation_results.err)
    ELSE Returned(calls, scenario.name, stress_points, position_results,
                  aggregation_results.val)

\* the tail of both run methods: aggregate and assemble ScenarioResults
Assemble(scenario, stress_points, loop) ==
    IF ~loop.ok THEN Raised(loop.calls, loop.err)
    ELSE ScenarioResults(scenario, loop.calls, stress_points, loop.out,
             _calculate_aggregation(loop.out, scenario.aggregation_type))

\* the end of a position's iteration in both run methods: its StressResult
\* is appended to position_results
AppendResult(acc, scenario, position, underlying, stress_values, pnl) ==
    IF ~pnl.ok
    THEN [acc EXCEPT !.ok = FALSE, !.err = pnl.err, !.calls = pnl.calls]
    ELSE IF ~hasattr(position.instrument, "price")
    THEN [acc EXCEPT !.ok = FALSE, !.err = "AttributeError",
                     !.calls = pnl.calls]
    ELSE [acc EXCEPT !.calls = pnl.calls,
                     !.out = Append(@, StressResult(scenario.name, position,
                                        underlying, stress_values, pnl.out))]

(***************************************************************************)
(* StressTestEngine.run_scenario, global mode                              *)
(***************************************************************************)
\* the display axis: one value per stress point
StressValues(scenario, stress_points) ==
    IF Len(scenario.risk_arrays) = 1
    THEN Ok([i \in 1..Len(stress_points) |->
               DictGet(stress_points[i], scenario.risk_arrays[1].dimension)])
    ELSE IF \E i \in 1..Len(stress_points) :
               ~DictHas(stress_points[i], "PRICE") /\ stress_points[i] = << >>
    THEN Raise("IndexError")
    ELSE Ok([i \in 1..Len(stress_points) |->
               IF DictHas(stress_points[i], "PRICE")
               THEN DictGet(stress_points[i], "PRICE")
               ELSE stress_points[i][1][2]])

\* one iteration of the loop over the positions
GlobalStep(acc, k, position, models, scenario, stress_points, stress_values) ==
    IF ~acc.ok THEN acc
    ELSE AppendResult(acc, scenario, position,
                      _get_underlying_symbol(position.instrument), stress_values,
                      PnlLoop(Len(stress_points), acc.calls, models, k, position,
                              stress_points, scenario.factor))

\* the loop over the first n positions; out is position_results
RECURSIVE GlobalLoop(_, _, _, _, _, _)
GlobalLoop(n, positions, models, scenario, stress_points, stress_values) ==
    IF n = 0 THEN [ok |-> TRUE, err |-> "", calls |-> << >>, out |-> << >>]
    ELSE GlobalStep(GlobalLoop(n - 1, positions, models, scenario,
                               stress_points, stress_values),
                    n, positions[n], models, scenario, stress_points,
                    stress_values)

\* run_scenario from the display axis on
RunOverAxis(positions, models, scenario, stress_points, stress_values) ==
    IF ~stress_values.ok THEN Raised(<< >>, stress_values.err)
    ELSE Assemble(scenario, stress_values.val,
                  GlobalLoop(Len(positions), positions, models, scenario,
                             stress_points, stress_values.val))

\* run_scenario from the stress points on
RunOverPoints(positions, models, scenario, stress_points) ==
    RunOverAxis(positions, models, scenario, stress_points,
                StressValues(scenario, stress_points))

RunGlobal(positions, models, scenario) ==
    RunOverPoints(positions, models, scenario, get_stress_points(scenario))

(***************************************************************************)
(* StressTestEngine._run_idiosyncratic_scenario                            *)
(***************************************************************************)
\* the maximum without the absolute value
RECURSIVE MaxNoAbs(_)
MaxNoAbs(values) ==
    IF Len(values) = 1 THEN values[1]
    ELSE PyMax(MaxNoAbs(Tail(values)), values[1])

\* np.max(np.abs(values)) of a non-empty array
RECURSIVE MaxAbs(_)
MaxAbs(values) ==
    IF Len(values) = 1 THEN RAbs(values[1])
    ELSE PyMax(MaxAbs(Tail(values)), RAbs(values[1]))

\* the [-1, 1] default axis
DefaultFractions == << R(-1), R(1) >>

\* first_epr.values / max_val, or the default axis
Normalised(values, max_val) ==
    IF RLt(Zero, max_val)
    THEN Ok([i \in 1..Len(values) |-> RDiv(values[i], max_val)])
    ELSE Ok(DefaultFractions)

\* the first loop: the common display axis all_stress_fractions
StressFractions(underlying_risk_arrays) ==
    IF \E i \in 1..Len(underlying_risk_arrays) :
           /\ Len(underlying_risk_arrays[i][2]) > 0
           /\ underlying_risk_arrays[i][2][1].dimension = "PRICE"
    THEN IF underlying_risk_arrays[1][2] = << >> THEN Raise("IndexError")
         ELSE IF underlying_risk_arrays[1][2][1].values = << >>
         THEN Raise("ValueError")
         ELSE Normalised(underlying_risk_arrays[1][2][1].values,
                         MaxAbs(underlying_risk_arrays[1][2][1].values))
    ELSE Ok(DefaultFractions)

\* stress_points = [{RiskDimension.PRICE: val} for val in stress_values]
PricePoints(stress_values) ==
    [i \in 1..Len(stress_values) |-> << << "PRICE", stress_values[i] >> >>]

\* a position whose underlying has risk arrays
IdioStress(acc, k, position, underlying, models, scenario, all_stress_fractions, risk_arrays) ==
    IF risk_arrays = << >>
    THEN [acc EXCEPT !.ok = FALSE, !.err = "IndexError"]
    ELSE AppendResult(acc, scenario, position, underlying, all_stress_fractions,
                      PnlLoop(Len(risk_arrays[1].values), acc.calls, models, k,
                              position, PricePoints(risk_arrays[1].values),
                              scenario.factor))

\* a position whose underlying has none: zero P&L on the common axis
IdioZero(acc, scenario, position, underlying, all_stress_fractions) ==
    IF ~hasattr(position.instrument, "price")
    THEN [acc EXCEPT !.ok = FALSE, !.err = "AttributeError"]
    ELSE [acc EXCEPT !.out = Append(@,
             StressResult(scenario.name, position, underlying,
                          all_stress_fractions, ZerosLike(all_stress_fractions)))]

\* one iteration of the loop over the positions
IdioStep(acc, k, position, underlying, models, scenario, all_stress_fractions) ==
    IF ~acc.ok THEN acc
    ELSE IF ~DictHas(scenario.underlying_risk_arrays, underlying)
    THEN IdioZero(acc, scenario, position, underlying, all_stress_fractions)
    ELSE IdioStress(acc, k, position, underlying, models, scenario,
                    all_stress_fractions,
                    DictGet(scenario.underlying_risk_arrays, underlying))

\* the loop over the first n positions; out is position_results
RECURSIVE IdioLoop(_, _, _, _, _)
IdioLoop(n, positions, models, scenario, all_stress_fractions) ==
    IF n = 0 THEN [ok |-> TRUE, err |-> "", calls |-> << >>, out |-> << >>]
    ELSE IdioStep(IdioLoop(n - 1, positions, models, scenario,
                           all_stress_fractions),
                  n, positions[n], _get_underlying_symbol(positions[n].instrument),
                  models, scenario, all_stress_fractions)

\* _run_idiosyncratic_scenario from the common axis on
RunOverFractions(positions, models, scenario, all_stress_fractions) ==
    IF ~all_stress_fractions.ok THEN Raised(<< >>, all_stress_fractions.err)
    ELSE Assemble(scenario, all_stress_fractions.val,
                  IdioLoop(Len(positions), positions, models, scenario,
                           all_stress_fractions.val))

_run_idiosyncratic_scenario(positions, models, scenario) ==
    RunOverFractions(positions, models, scenario,
                     StressFractions(scenario.underlying_risk_arrays))

\* StressTestEngine.run_scenario
run_scenario(positions, models, scenario) ==
    IF scenario.underlying_risk_arrays # << >>
    THEN _run_idiosyncratic_scenario(positions, models, scenario)
    ELSE RunGlobal(positions, models, scenario)

(***************************************************************************)
(* core/result.py and engine/stress_engine.py : the tabular form           *)
(*                                                                         *)
(* A column name f'{stress:.3f}' is the pair <<negative, thousandths>>:    *)
(* the sign the format prints and the digits it prints, the magnitude      *)
(* rounded to three decimals.  A row is [meta, cells]: meta holds the six  *)
(* identifying entries, cells the P&L entries as an ordered dict           *)
(* column name -> value.  A table cell is a sequence: << v >> for the      *)
(* number v, << >> for an empty string or a missing value; a position_id   *)
(* cell is the sequence of the parts the string is made of.                *)
(***************************************************************************)
\* the magnitude of x in thousandths, rounded half to even
Thousandths(x) ==
    IF 2 * ((Abs(x[1]) * 1000) % x[2]) > x[2]
       \/ (2 * ((Abs(x[1]) * 1000) % x[2]) = x[2]
           /\ ((Abs(x[1]) * 1000) \div x[2]) % 2 = 1)
    THEN ((Abs(x[1]) * 1000) \div x[2]) + 1
    ELSE (Abs(x[1]) * 1000) \div x[2]

\* f'{x:.3f}'
Fmt3(x) == << x[1] < 0, Thousandths(x) >>

\* row[f'{stress:.3f}'] = pnl[n], which raises past the end of pnl
CellStep(acc, n, stress_points, pnl) ==
    IF ~acc.ok THEN acc
    ELSE IF n > Len(pnl) THEN Raise("IndexError")
    ELSE Ok(DictSet(acc.val, Fmt3(stress_points[n]), pnl[n]))

\* for i, stress in enumerate(stress_points): row[f'{stress:.3f}'] = pnl[i]
RECURSIVE PnlCells(_, _, _)
PnlCells(n, stress_points, pnl) ==
    IF n = 0 THEN Ok(<< >>)
    ELSE CellStep(PnlCells(n - 1, stress_points, pnl), n, stress_points, pnl)

\* a row from its identifying entries and the outcome of its P&L loop
Row(meta, cells) ==
    IF ~cells.ok THEN cells ELSE Ok([meta |-> meta, cells |-> cells.val])

\* StressResult.to_dict
to_dict(result) ==
    Row([scenario |-> result.scenario_name,
         base_value |-> << result.base_value >>,
         underlying |-> result.underlying,
         quantity |-> << result.quantity >>,
         position_id |-> << result.position_id >>,
         instrument_type |-> result.instrument_type],
        PnlCells(Len(result.stress_points), result.stress_points,
                 result.pnl_values))

\* the row of one aggregation bucket, f'AGG_{underlying}' kept as the pair
AggregateRow(scenario_results, underlying, pnl_array) ==
    Row([scenario |-> scenario_results.scenario_name,
         base_value |-> << >>,
         underlying |-> underlying,
         quantity |-> << >>,
         position_id |-> << "AGG_", underlying >>,
         instrument_type |-> "AGGREGATE"],
        PnlCells(Len(scenario_results.stress_points),
                 scenario_results.stress_points, pnl_array))

\* data.append(row), unless making the row raised
AppendRow(acc, row) ==
    IF ~acc.ok THEN acc
    ELSE IF ~row.ok THEN row
    ELSE Ok(Append(acc.val, row.val))

\* the first loop of _scenario_results_to_dataframe
RECURSIVE PositionRows(_, _)
PositionRows(n, position_results) ==
    IF n = 0 THEN Ok(<< >>)
    ELSE AppendRow(PositionRows(n - 1, position_results),
                   to_dict(position_results[n]))

\* the second loop, after the first gave data
RECURSIVE AggregateRows(_, _, _)
AggregateRows(n, scenario_results, data) ==
    IF n = 0 THEN data
    ELSE AppendRow(AggregateRows(n - 1, scenario_results, data),
                   AggregateRow(scenario_results,
                                scenario_results.aggregation_results[n][1],
                                scenario_results.aggregation_results[n][2]))

AppendNew(cols, k) ==
    IF \E i \in 1..Len(cols) : cols[i] = k THEN cols ELSE Append(cols, k)

\* cols and then the first n keys of d that are new
RECURSIVE AddKeys(_, _, _)
AddKeys(cols, d, n) ==
    IF n = 0 THEN cols ELSE AppendNew(AddKeys(cols, d, n - 1), d[n][1])

\* the P&L columns of pd.DataFrame(data): the keys of the first n rows in
\* the order they first appear
RECURSIVE PnlCols(_, _)
PnlCols(data, n) ==
    IF n = 0 THEN << >>
    ELSE AddKeys(PnlCols(data, n - 1), data[n].cells, Len(data[n].cells))

meta_cols ==
    << "scenario", "underlying", "position_id", "instrument_type", "quantity",
       "base_value" >>

\* one row of the frame: a cell per column, empty where the row has no entry
FrameRow(row, pnl_cols) ==
    [meta |-> row.meta,
     cells |-> [c \in 1..Len(pnl_cols) |->
                  IF DictHas(row.cells, pnl_cols[c])
                  THEN << DictGet(row.cells, pnl_cols[c]) >>
                  ELSE << >>]]

\* pd.DataFrame(data) restricted to the given columns
Frame(data, pnl_cols) ==
    [meta_cols |-> meta_cols, pnl_cols |-> pnl_cols,
     rows |-> [j \in 1..Len(data) |-> FrameRow(data[j], pnl_cols)]]

\* df = pd.DataFrame(data); df[meta_cols + pnl_cols]: a frame made from no
\* row has no column, and selecting the meta columns raises
DataFrame(data) ==
    IF ~data.ok THEN data
    ELSE IF data.val = << >> THEN Raise("KeyError")
    ELSE Ok(Frame(data.val, PnlCols(data.val, Len(data.val))))

\* StressTestEngine._scenario_results_to_dataframe
_scenario_results_to_dataframe(scenario_results) ==
    DataFrame(AggregateRows(Len(scenario_results.aggregation_results),
                            scenario_results,
                            PositionRows(Len(scenario_results.position_results),
                                         scenario_results.position_results)))

\* a store that keeps the frame a name already has
StoreFrameFirst(acc, scenario, df) ==
    IF ~df.ok THEN df
    ELSE IF DictHas(acc.val, scenario.name) THEN acc
    ELSE Ok(DictSet(acc.val, scenario.name, df.val))

\* one iteration of run_scenarios once the scenario has run
StoreFrame(acc, scenario, df) ==
    IF ~df.ok THEN df ELSE Ok(DictSet(acc.val, scenario.name, df.val))

\* one iteration of run_scenarios
ScenariosStep(acc, positions, models, scenario, scenario_results) ==
    IF ~acc.ok THEN acc
    ELSE IF scenario_results.status # "ok" THEN Raise(scenario_results.error)
    ELSE StoreFrame(acc, scenario,
                    _scenario_results_to_dataframe(scenario_results))

\* StressTestEngine.run_scenarios over the first n scenarios
RECURSIVE run_scenarios(_, _, _, _)
run_scenarios(n, positions, models, scenarios) ==
    IF n = 0 THEN Ok(<< >>)
    ELSE ScenariosStep(run_scenarios(n - 1, positions, models, scenarios),
                       positions, models, scenarios[n],
                       run_scenario(positions, models, scenarios[n]))

(***************************************************************************)
(* The callers' inputs, bounded                                            *)
(***************************************************************************)
MaxPositions == 2
MaxSteps == 2
MaxArrays == 2

\* the lists of at most n distinct elements of S
SeqsUpTo(S, n) ==
    { s \in UNION { [1..k -> S] : k \in 0..n } :
        \A i, j \in 1..Len(s) : s[i] = s[j] => i = j }

\* the step counts tried for the volatility axis
VolSteps == { 0, 1 }

\* the instruments and positions of examples/basic_stress_test.py
Equity(symbol, price) ==
    [attrs |-> [symbol |-> symbol, price |-> price], type |-> "Equity"]

Option(underlying, strike, price, iv, dte, option_type) ==
    [attrs |-> [underlying |-> underlying, price |-> price, iv |-> iv,
                dte |-> dte, strike |-> strike, option_type |-> option_type],
     type |-> "Option"]

\* an instrument that exposes a symbol and none of the five parameters
Cash(symbol) == [attrs |-> [symbol |-> symbol], type |-> "Cash"]

\* an instrument that exposes a price and neither symbol nor underlying
Bond(price) == [attrs |-> [price |-> price], type |-> "Bond"]

\* an instrument that exposes a price and a dividend yield
Stock(symbol, price, dividend_yield) ==
    [attrs |-> [symbol |-> symbol, price |-> price,
                dividend_yield |-> dividend_yield],
     type |-> "Stock"]

Position(id, instrument, quantity) ==
    [instrument |-> instrument, quantity |-> quantity, id |-> id]

PositionPool ==
    { Position("pos1", Equity("AAPL", R(150)), R(100)),
      Position("pos2", Option("AAPL", R(285), Norm(16, 5), Norm(3, 10), R(30),
                              "call"), R(-10)),
      Position("pos3", Equity("MSFT", R(300)), R(50)) }

\* portfolios that hold an instrument of neither example class
ExtraPortfolios ==
    { << Position("pos4", Cash("USD"), R(1000)) >>,
      << Position("pos1", Equity("AAPL", R(150)), R(100)),
         Position("pos4", Cash("USD"), R(1000)) >>,
      << Position("pos5", Stock("MSFT", R(300), Norm(1, 50)), R(50)) >>,
      << Position("pos5", Stock("MSFT", R(300), Norm(1, 50)), R(50)),
         Position("pos2", Option("AAPL", R(285), Norm(16, 5), Norm(3, 10), R(30),
                                 "call"), R(-10)) >>,
      << Position("pos6", Bond(R(100)), R(20)),
         Position("pos2", Option("AAPL", R(285), Norm(16, 5), Norm(3, 10), R(30),
                                 "call"), R(-10)) >> }

Portfolios == SeqsUpTo(PositionPool, MaxPositions) \cup ExtraPortfolios

\* the pricer registry of example_epr_stress_test: a pricer for Equity,
\* none for Option
ExampleModels == [Equity |-> "equity_pricer"]

StepPcts == { Norm(1, 20) }

FactorPool ==
    { NoFactor,
      create_beta_factor([AAPL |-> Norm(1, 2)]),
      create_idiosyncratic_factor("MSFT", R(2)) }

\* the factors given to directly constructed scenarios
DirectFactors == { NoFactor, create_beta_factor([AAPL |-> Norm(1, 2)]) }

EprMaps ==
    { << << "AAPL", Norm(1, 5) >> >>,
      << << "AAPL", Norm(1, 5) >>, << "MSFT", Norm(3, 20) >> >>,
      << << "MSFT", Norm(3, 20) >>, << "AAPL", Norm(1, 5) >> >>,
      << << "AAPL", Zero >> >> }

GridSpecs ==
    { [fractions |-> << R(-1), Norm(-1, 2), Norm(1, 2), R(1) >>, kind |-> "list"],
      [fractions |-> << Zero, Zero, Zero >>, kind |-> "list"],
      [kind |-> "dict", map |-> [MSFT |-> << R(-1), Norm(-1, 2), Norm(1, 2), R(1) >>]],
      [kind |-> "dict", map |-> [AAPL |-> << R(-1), Zero, R(1) >>,
                                 MSFT |-> << R(-1), R(1) >>]] }

\* arrays made with RiskArray.custom
ArrayPool ==
    { custom("PRICE", << Norm(-1, 20), Norm(1, 20) >>, TRUE),
      custom("PRICE", << R(-10), R(20) >>, FALSE),
      custom("TIME", << R(10), R(40) >>, FALSE),
      custom("TIME", << R(-5) >>, TRUE),
      custom("VOLATILITY", << Norm(1, 10) >>, TRUE),
      custom("DIVIDEND_YIELD", << Norm(1, 2) >>, TRUE) }

\* underlying_risk_arrays dicts given directly to StressScenario
UnderlyingArraysPool ==
    { << >>,
      << << "AAPL", << custom("PRICE", << R(-30), R(20) >>, FALSE) >> >>,
         << "MSFT", << custom("PRICE", << Norm(-1, 10), Zero, Norm(1, 10) >>, TRUE) >> >> >>,
      << << "MSFT", << custom("PRICE", << Norm(1, 10) >>, TRUE) >> >>,
         << "AAPL", << custom("PRICE", << Norm(-1, 5), Norm(1, 5) >>, TRUE) >> >> >>,
      << << "AAPL", << custom("VOLATILITY", << Norm(-1, 2), Norm(1, 4) >>, TRUE) >> >> >>,
      << << "AAPL", << custom("VOLATILITY", << Norm(-1, 2), Norm(1, 4) >>, TRUE) >> >>,
         << "MSFT", << custom("PRICE", << Norm(-1, 10), Norm(1, 10) >>, TRUE) >> >> >>,
      << << "AAPL", << equidistant("PRICE", 0, 0, Norm(1, 20), FALSE) >> >> >> }

\* the length of the longest list passed to run_scenarios
MaxBatch == 2

\* the scenarios passed to run_scenarios: those of example_multiple_scenarios
\* on a coarser grid, a second scenario named "Small Moves", a two-array
\* scenario and an idiosyncratic scenario on absolute shocks
ScenarioPool ==
    { build_price_stress_scenario("Small Moves", 1, 1, Norm(1, 50), NoFactor),
      build_price_stress_scenario("Large Moves", 2, 2, Norm(1, 10), NoFactor),
      build_epr_stress_scenario("EPR Stress",
          << << "AAPL", Norm(1, 5) >>, << "MSFT", Norm(3, 20) >> >>, 2, TRUE),
      build_price_stress_scenario("Small Moves", 2, 0, Norm(1, 100), NoFactor),
      build_price_vol_stress_scenario("Price Vol", << 1, 1, Norm(1, 20) >>,
                                      << 1, 0, Norm(1, 10) >>),
      StressScenario("Idio", << >>, NoFactor, "BY_UNDERLYING",
          << << "AAPL", << custom("PRICE", << R(-30), R(20) >>, FALSE) >> >> >>) }

(***************************************************************************)
(* State                                                                   *)
(***************************************************************************)
VARIABLES
    portfolio,       \* engine.portfolio.positions
    pricing_models,  \* engine.pricing_models
    scenario,        \* the scenario the caller holds
    phase,           \* "new": no scenario yet, "built", "ran", "reran": the
                     \* same scenario was run a second time, "batch"
    results,         \* what the last run_scenario returned or raised
    applied,         \* the _apply_stress calls of the last run_scenario
    scenarios,       \* the list the caller passed to run_scenarios
    results_dict     \* what that run_scenarios returned or raised

vars ==
    << portfolio, pricing_models, scenario, phase, results, applied, scenarios,
       results_dict >>

NoScenario == StressScenario("", << >>, NoFactor, "BY_UNDERLYING", << >>)
NoResults == [status |-> "none"]

\* StressTestEngine.__init__
Init ==
    /\ portfolio \in Portfolios
    /\ pricing_models = ExampleModels
    /\ scenario = NoScenario
    /\ phase = "new"
    /\ results = NoResults
    /\ applied = << >>
    /\ scenarios = << >>
    /\ results_dict = NoResults

\* the caller's frame around building a scenario
BuiltFrame ==
    /\ phase' = "built"
    /\ UNCHANGED << portfolio, pricing_models, results, applied, scenarios,
                    results_dict >>

BuildPriceStressScenario ==
    /\ phase = "new"
    /\ \E n_up \in 0..MaxSteps, n_down \in 0..MaxSteps, step_pct \in StepPcts,
          factor \in FactorPool :
           scenario' = build_price_stress_scenario("Price Stress", n_up, n_down,
                                                   step_pct, factor)
    /\ BuiltFrame

BuildPriceVolStressScenario ==
    /\ phase = "new"
    /\ \E pu \in 0..MaxSteps, pd \in 0..MaxSteps, vu \in VolSteps,
          vd \in VolSteps, step_pct \in StepPcts :
           scenario' = build_price_vol_stress_scenario("Price Vol",
                           << pu, pd, step_pct >>, << vu, vd, step_pct >>)
    /\ BuiltFrame

BuildEprStressScenario ==
    /\ phase = "new"
    /\ \E epr_map \in EprMaps, n_steps \in 0..MaxSteps, include_base \in BOOLEAN :
           scenario' = build_epr_stress_scenario("EPR Stress", epr_map, n_steps,
                                                 include_base)
    /\ BuiltFrame

BuildEprStressScenarioCustom ==
    /\ phase = "new"
    /\ \E epr_map \in EprMaps, grid_spec \in GridSpecs :
           scenario' = build_epr_stress_scenario_custom("EPR Custom", epr_map,
                                                        grid_spec)
    /\ BuiltFrame

\* a scenario constructed directly from RiskArray.custom arrays
NewStressScenario ==
    /\ phase = "new"
    /\ \E risk_arrays \in SeqsUpTo(ArrayPool, MaxArrays),
          factor \in DirectFactors, aggregation_type \in AggregationType :
           scenario' = StressScenario("Custom", risk_arrays, factor,
                                      aggregation_type, << >>)
    /\ BuiltFrame

\* an idiosyncratic scenario constructed directly
NewIdiosyncraticScenario ==
    /\ phase = "new"
    /\ \E ura \in UnderlyingArraysPool \ { << >> },
          factor \in DirectFactors, aggregation_type \in AggregationType :
           scenario' = StressScenario("Idio", << >>, factor, aggregation_type, ura)
    /\ BuiltFrame

\* the dimensions of the directly constructed equidistant arrays
EquidistantDimensions == { "PRICE", "VOLATILITY" }

\* a scenario constructed directly from one RiskArray.equidistant array
NewEquidistantScenario ==
    /\ phase = "new"
    /\ \E dimension \in EquidistantDimensions, n_up \in 0..MaxSteps,
          n_down \in 0..MaxSteps, step_pct \in StepPcts, include_base \in BOOLEAN :
           scenario' = StressScenario("Equidistant",
                           << equidistant(dimension, n_up, n_down, step_pct,
                                          include_base) >>,
                           NoFactor, "BY_UNDERLYING", << >>)
    /\ BuiltFrame

\* what the caller keeps of a call's outcome
Outcome(r) ==
    IF r.status = "ok"
    THEN [stress_points |-> r.stress_points,
          scenario_name |-> r.scenario_name,
          position_results |-> r.position_results,
          aggregation_results |-> r.aggregation_results,
          status |-> "ok"]
    ELSE [status |-> "raised", error |-> r.error]

\* a run that uses up the scenario's risk arrays
RunScenarioInPlace ==
    /\ phase \in {"built", "ran"}
    /\ \E r \in { run_scenario(portfolio, pricing_models, scenario) } :
           /\ applied' = r.calls
           /\ results' = Outcome(r)
    /\ scenario' = [scenario EXCEPT !.risk_arrays = << >>]
    /\ phase' = IF phase = "built" THEN "ran" ELSE "reran"
    /\ UNCHANGED << portfolio, pricing_models, scenarios, results_dict >>

\* engine.run_scenario(scenario), for the first or for the second time
RunScenario ==
    /\ phase \in {"built", "ran"}
    /\ \E r \in { run_scenario(portfolio, pricing_models, scenario) } :
           /\ applied' = r.calls
           /\ results' = Outcome(r)
    /\ phase' = IF phase = "built" THEN "ran" ELSE "reran"
    /\ UNCHANGED << portfolio, pricing_models, scenario, scenarios, results_dict >>

\* what the caller keeps of a run_scenarios call's outcome
Frames(d) ==
    IF d.ok THEN [status |-> "ok", frames |-> d.val]
    ELSE [status |-> "raised", error |-> d.err]

\* engine.run_scenarios(scenarios)
RunScenarios ==
    /\ phase = "new"
    /\ \E batch \in SeqsUpTo(ScenarioPool, MaxBatch) :
           /\ scenarios' = batch
           /\ results_dict' = Frames(run_scenarios(Len(batch), portfolio,
                                                  pricing_models, batch))
    /\ phase' = "batch"
    /\ UNCHANGED << portfolio, pricing_models, scenario, results, applied >>

\* the caller drops the scenarios and their results
Discard ==
    /\ phase \in {"ran", "reran", "batch"}
    /\ scenario' = NoScenario
    /\ phase' = "new"
    /\ results' = NoResults
    /\ applied' = << >>
    /\ scenarios' = << >>
    /\ results_dict' = NoResults
    /\ UNCHANGED << portfolio, pricing_models >>

Next ==
    \/ BuildPriceStressScenario
    \/ BuildPriceVolStressScenario
    \/ BuildEprStressScenario
    \/ BuildEprStressScenarioCustom
    \/ NewStressScenario
    \/ NewIdiosyncraticScenario
    \/ NewEquidistantScenario
    \/ RunScenario
    \/ RunScenarios
    \/ Discard

Spec == Init /\ [][Next]_vars

(***************************************************************************)
(* Properties                                                              *)
(***************************************************************************)
Ran == phase \in {"ran", "reran"}
RunReturned == Ran /\ results.status = "ok"
Idiosyncratic == scenario.underlying_risk_arrays # << >>

\* the product of the lengths of arrays a, a + 1, ...
RECURSIVE LenProduct(_, _)
LenProduct(arrays, a) ==
    IF a > Len(arrays) THEN 1
    ELSE Len(arrays[a].values) * LenProduct(arrays, a + 1)

\* the index (from 0) into array a that flat index f (from 0) selects when
\* the first array varies slowest
DigitOf(arrays, a, f) ==
    (f \div LenProduct(arrays, a + 1)) % Len(arrays[a].values)

\* array a is the last of the scenario's arrays with its dimension
LastOfDimension(arrays, a) ==
    \A b \in (a + 1)..Len(arrays) : arrays[b].dimension # arrays[a].dimension

\* C1 as stated: a non-idiosyncratic scenario expands into exactly the
\* product of its arrays' lengths many shock points, and the point at a
\* flat index maps every array's dimension to that array's value at the
\* index's digit, the first array varying slowest.
C1_Original ==
    (Ran /\ ~Idiosyncratic) =>
        LET ra == scenario.risk_arrays
            pts == get_stress_points(scenario)
        IN  /\ Len(pts) = LenProduct(ra, 1)
            /\ \A f \in 0..(Len(pts) - 1) : \A a \in 1..Len(ra) :
                  /\ DictHas(pts[f + 1], ra[a].dimension)
                  /\ DictGet(pts[f + 1], ra[a].dimension)
                        = ra[a].values[DigitOf(ra, a, f) + 1]

\* C1 amended: the size and the order are as stated; the point at a flat
\* index has exactly the arrays' dimensions as keys and maps a dimension
\* to the value of the last array that has this dimension (with pairwise
\* distinct dimensions: every array's dimension to that array's value).
C1_ProductOrder ==
    (Ran /\ ~Idiosyncratic) =>
        LET ra == scenario.risk_arrays
            pts == get_stress_points(scenario)
        IN  /\ Len(pts) = LenProduct(ra, 1)
            /\ \A f \in 0..(Len(pts) - 1) :
                  /\ DictKeys(pts[f + 1]) = { ra[a].dimension : a \in 1..Len(ra) }
                  /\ \A a \in 1..Len(ra) :
                        LastOfDimension(ra, a) =>
                            DictGet(pts[f + 1], ra[a].dimension)
                                = ra[a].values[DigitOf(ra, a, f) + 1]

\* a run of a scenario with two arrays of different dimensions and of
\* different lengths, both at least 2
C1_Witness ==
    /\ Ran /\ ~Idiosyncratic
    /\ Len(scenario.risk_arrays) = 2
    /\ scenario.risk_arrays[1].dimension # scenario.risk_arrays[2].dimension
    /\ Len(scenario.risk_arrays[1].values) >= 2
    /\ Len(scenario.risk_arrays[2].values) >= 2
    /\ Len(scenario.risk_arrays[1].values) # Len(scenario.risk_arrays[2].values)
    /\ Len(applied) = Len(portfolio) * 
          Len(scenario.risk_arrays[1].values) * Len(scenario.risk_arrays[2].values)
    /\ Len(portfolio) > 0

\* the is_relative flag of the risk array that the shock of dimension d
\* applied to position k was taken from
OriginIsRelative(k, d) ==
    IF Idiosyncratic
    THEN DictGet(scenario.underlying_risk_arrays,
                 _get_underlying_symbol(portfolio[k].instrument))[1].is_relative
    ELSE LET ra == scenario.risk_arrays
             a == CHOOSE a \in 1..Len(ra) :
                     ra[a].dimension = d /\ LastOfDimension(ra, a)
         IN  ra[a].is_relative

\* C2: every non-TIME shock applied to a parameter the instrument has is
\* applied relatively, base * (1 + shock * multiplier), when the array it
\* came from is relative and absolutely, base + shock * multiplier, when
\* that array is absolute.
C2_CalculatorByFlag ==
    \A c \in 1..Len(applied) :
        LET call == applied[c]
            instrument == portfolio[call.position].instrument
            m == FactorValue(instrument, scenario.factor)
        IN  \A p \in 1..Len(call.stress_point) :
                LET d == call.stress_point[p][1]
                    shock == call.stress_point[p][2]
                    name == RiskDimension[d]
                IN  (d # "TIME" /\ name \in DOMAIN call.base_params) =>
                        call.stressed_params[name] =
                            IF OriginIsRelative(call.position, d)
                            THEN RMul(call.base_params[name],
                                      RAdd(One, RMul(shock, m)))
                            ELSE RAdd(call.base_params[name], RMul(shock, m))

\* C3: every TIME shock applied to an instrument that has a time parameter
\* leaves max(0, base - shock): never negative, 0 when the shock exceeds
\* the remaining time, whatever the factor and the array's flag.
C3_TimeDecayFloor ==
    \A c \in 1..Len(applied) :
        LET call == applied[c]
        IN  (DictHas(call.stress_point, "TIME") /\ "time" \in DOMAIN call.base_params) =>
                LET base == call.base_params["time"]
                    shock == DictGet(call.stress_point, "TIME")
                    stressed == call.stressed_params["time"]
                IN  /\ stressed = IF RLt(Zero, RSub(base, shock))
                                  THEN RSub(base, shock) ELSE Zero
                    /\ RLe(Zero, stressed)
                    /\ RLt(base, shock) => stressed = Zero

\* a TIME shock larger than the remaining time, applied under a factor
\* whose multiplier for the instrument is not 1
C3_Witness ==
    \E c \in 1..Len(applied) :
        LET call == applied[c]
        IN  /\ DictHas(call.stress_point, "TIME")
            /\ "time" \in DOMAIN call.base_params
            /\ RLt(call.base_params["time"], DictGet(call.stress_point, "TIME"))
            /\ call.stressed_params["time"] = Zero
            /\ FactorValue(portfolio[call.position].instrument, scenario.factor) # One

\* the scenario has a shock axis to run over
HasAxis == Idiosyncratic \/ scenario.risk_arrays # << >>

UnderlyingOf(k) == _get_underlying_symbol(portfolio[k].instrument)

\* the sum over the positions K of their P&L at index i
RECURSIVE SumAt(_, _, _)
SumAt(prs, K, i) ==
    IF K = {} THEN Zero
    ELSE LET k == CHOOSE k \in K : TRUE
         IN  RAdd(prs[k].pnl_values[i], SumAt(prs, K \ {k}, i))

\* arr is the elementwise sum of the P&L arrays of the positions K: the
\* arrays all have arr's length and arr[i] is their sum at i
IsElementwiseSum(arr, prs, K) ==
    /\ \A k \in K : Len(prs[k].pnl_values) = Len(arr)
    /\ \A i \in 1..Len(arr) : arr[i] = SumAt(prs, K, i)

\* C4: after run_scenario, BY_UNDERLYING gives one bucket per underlying
\* of the portfolio, the elementwise sum over exactly its positions, and
\* TOTAL gives the single bucket "total", the elementwise sum over all
\* positions (an array of the axis' length).
C4_AggregationAdditivity ==
    (Ran /\ HasAxis /\ scenario.aggregation_type \in {"BY_UNDERLYING", "TOTAL"}) =>
        /\ results.status = "ok"
        /\ LET agg == results.aggregation_results
               prs == results.position_results
               all == 1..Len(portfolio)
           IN  IF scenario.aggregation_type = "BY_UNDERLYING"
               THEN /\ DictKeys(agg) = { UnderlyingOf(k) : k \in all }
                    /\ \A u \in DictKeys(agg) :
                          IsElementwiseSum(DictGet(agg, u), prs,
                                           { k \in all : UnderlyingOf(k) = u })
               ELSE /\ DictKeys(agg) = { "total" }
                    /\ Len(DictGet(agg, "total")) = Len(results.stress_points)
                    /\ IsElementwiseSum(DictGet(agg, "total"), prs, all)

\* C5: with BY_FACTOR aggregation run_scenario returns exactly one bucket,
\* keyed by the factor's name or "no_factor", holding the elementwise sum
\* of all positions' P&L.
C5_ByFactorBucket ==
    (RunReturned /\ scenario.aggregation_type = "BY_FACTOR") =>
        LET agg == results.aggregation_results
        IN  /\ DictKeys(agg) = { IF scenario.factor.none THEN "no_factor"
                                 ELSE scenario.factor.name }
            /\ Len(agg) = 1
            /\ IsElementwiseSum(agg[1][2], results.position_results,
                                1..Len(portfolio))

\* C6: every StressResult returned has as many P&L values as stress points.
C6_ResultLengths ==
    RunReturned =>
        \A k \in 1..Len(results.position_results) :
            Len(results.position_results[k].stress_points)
                = Len(results.position_results[k].pnl_values)

\* C7: every aggregated array returned has the length of the canonical
\* stress_points axis.
C7_AggregationLengths ==
    RunReturned =>
        \A b \in 1..Len(results.aggregation_results) :
            Len(results.aggregation_results[b][2]) = Len(results.stress_points)

\* axis is values divided by the largest absolute value of values, or the
\* two-point default when that is zero
IsNormalised(axis, values) ==
    LET m == CHOOSE m \in { RAbs(values[i]) : i \in 1..Len(values) } :
                 \A i \in 1..Len(values) : RLe(RAbs(values[i]), m)
    IN  IF m = Zero THEN axis = << R(-1), R(1) >>
        ELSE /\ Len(axis) = Len(values)
             /\ \A i \in 1..Len(values) : RMul(axis[i], m) = values[i]

\* some underlying's list starts with a PRICE array
SomePriceArray ==
    \E i \in 1..Len(scenario.underlying_risk_arrays) :
        /\ scenario.underlying_risk_arrays[i][2] # << >>
        /\ scenario.underlying_risk_arrays[i][2][1].dimension = "PRICE"

\* the scenario of the EPR round-trip example and its axis
EprExampleArrays ==
    << << "AAPL", << RiskArray("PRICE",
                       << Norm(-1, 5), Norm(-1, 10), Norm(1, 10), Norm(1, 5) >>,
                       TRUE) >> >> >>

EprExampleHolds ==
    /\ build_epr_stress_scenario("x", << << "AAPL", Norm(1, 5) >> >>, 2, FALSE)
           .underlying_risk_arrays = EprExampleArrays
    /\ (RunReturned /\ scenario.underlying_risk_arrays = EprExampleArrays) =>
           results.stress_points = << R(-1), Norm(-1, 2), Norm(1, 2), R(1) >>

\* C8 as stated: in idiosyncratic mode the returned axis is the first
\* underlying's array over its largest absolute value, or [-1, 1] when
\* that is zero.
C8_Original ==
    /\ (RunReturned /\ Idiosyncratic) =>
           IsNormalised(results.stress_points,
                        scenario.underlying_risk_arrays[1][2][1].values)
    /\ EprExampleHolds

\* C8 amended: that is the axis when some underlying's list starts with a
\* PRICE array; when none does the axis is [-1, 1].
C8_FractionAxis ==
    /\ (RunReturned /\ Idiosyncratic) =>
           IF SomePriceArray
           THEN IsNormalised(results.stress_points,
                             scenario.underlying_risk_arrays[1][2][1].values)
           ELSE results.stress_points = << R(-1), R(1) >>
    /\ EprExampleHolds

\* the EPR example has been run and has returned its four-point axis
C8_Witness ==
    /\ RunReturned
    /\ scenario.underlying_risk_arrays = EprExampleArrays
    /\ Len(portfolio) > 0
    /\ results.position_results[1].stress_points
           = << R(-1), Norm(-1, 2), Norm(1, 2), R(1) >>

\* the _apply_stress calls made for position k, in order
CallsOf(k) == SelectSeq(applied, LAMBDA c : c.position = k)

\* C9: every P&L recorded for a shocked position is quantity * stressed
\* unit price - quantity * base price; under a relative PRICE shock s with
\* no factor it is quantity * price * s (100 at 150: -750, 0, 750 for
\* s = -0.05, 0, 0.05).
C9_PnlFormula ==
    RunReturned =>
        \A k \in 1..Len(portfolio) :
            LET calls == CallsOf(k)
                q == portfolio[k].quantity
                price == portfolio[k].instrument.attrs.price
                pnl == results.position_results[k].pnl_values
            IN  calls # << >> =>
                  /\ Len(pnl) = Len(calls)
                  /\ \A i \in 1..Len(calls) :
                        /\ pnl[i] = RSub(RMul(q, calls[i].stressed_params["price"]),
                                         RMul(q, price))
                        /\ ( /\ scenario.factor.none
                             /\ DictHas(calls[i].stress_point, "PRICE")
                             /\ OriginIsRelative(k, "PRICE") ) =>
                               LET shock == DictGet(calls[i].stress_point, "PRICE")
                               IN  /\ pnl[i] = RMul(RMul(q, price), shock)
                                   /\ (q = R(100) /\ price = R(150)) =>
                                         /\ shock = Norm(-1, 20) => pnl[i] = R(-750)
                                         /\ shock = Norm(1, 20) => pnl[i] = R(750)
                                         /\ shock = Zero => pnl[i] = Zero

\* 100 shares at 150 under relative PRICE shocks of -5%, 0 and +5%, no factor
C9_Witness ==
    /\ RunReturned
    /\ Len(portfolio) > 0
    /\ portfolio[1].quantity = R(100)
    /\ portfolio[1].instrument.attrs.price = R(150)
    /\ scenario.factor.none
    /\ ~Idiosyncratic
    /\ Len(scenario.risk_arrays) = 1
    /\ scenario.risk_arrays[1] =
           RiskArray("PRICE", << Norm(-1, 20), Zero, Norm(1, 20) >>, TRUE)
    /\ results.position_results[1].pnl_values = << R(-750), Zero, R(750) >>

\* the multiplier C10 describes, for the instrument of position k
ClaimedMultiplier(k) ==
    LET a == portfolio[k].instrument.attrs
        table == scenario.factor.underlying_factors
        Lookup(sym) == IF sym \in DOMAIN table THEN table[sym] ELSE One
    IN  IF scenario.factor.none THEN One
        ELSE IF "underlying" \in DOMAIN a THEN Lookup(a.underlying)
        ELSE IF "symbol" \in DOMAIN a THEN Lookup(a.symbol)
        ELSE One

\* C10: a relative non-TIME shock leaves base * (1 + shock * multiplier),
\* the multiplier being the factor's value for the instrument's underlying,
\* else for its symbol, and 1 without a factor or for an unknown symbol.
C10_FactorMultiplier ==
    /\ get_factor(Factor("beta", [AAPL |-> Norm(1, 2)]), "MSFT") = One
    /\ get_factor(Factor("beta", [AAPL |-> Norm(1, 2)]), "AAPL") = Norm(1, 2)
    /\ \A c \in 1..Len(applied) :
        LET call == applied[c]
        IN  \A p \in 1..Len(call.stress_point) :
                LET d == call.stress_point[p][1]
                    shock == call.stress_point[p][2]
                    name == RiskDimension[d]
                IN  ( /\ d # "TIME"
                      /\ name \in DOMAIN call.base_params
                      /\ OriginIsRelative(call.position, d) ) =>
                        call.stressed_params[name] =
                            RMul(call.base_params[name],
                                 RAdd(One, RMul(shock,
                                                ClaimedMultiplier(call.position))))

\* one run under a factor that halves the shock of an instrument found by
\* its underlying and leaves alone an instrument whose symbol it does not
\* know
C10_Witness ==
    /\ RunReturned
    /\ ~scenario.factor.none
    /\ \E c \in 1..Len(applied) :
          LET call == applied[c]
              a == portfolio[call.position].instrument.attrs
          IN  /\ "underlying" \in DOMAIN a
              /\ ClaimedMultiplier(call.position) = Norm(1, 2)
              /\ DictHas(call.stress_point, "PRICE")
              /\ DictGet(call.stress_point, "PRICE") # Zero
              /\ OriginIsRelative(call.position, "PRICE")
              /\ call.stressed_params["price"] # call.base_params["price"]
    /\ \E c \in 1..Len(applied) :
          LET call == applied[c]
              a == portfolio[call.position].instrument.attrs
          IN  /\ "underlying" \notin DOMAIN a
              /\ "symbol" \in DOMAIN a
              /\ a.symbol \notin DOMAIN scenario.factor.underlying_factors
              /\ DictHas(call.stress_point, "PRICE")
              /\ DictGet(call.stress_point, "PRICE") # Zero
              /\ OriginIsRelative(call.position, "PRICE")

(***************************************************************************)
(* Repricing                                                               *)
(***************************************************************************)
\* the instrument a logged call was made for
InstrumentOf(c) == portfolio[c.position].instrument

Registered(c) == InstrumentOf(c).type \in DOMAIN pricing_models

\* C11: every repricing the engine made returned a value and did not fail
\* when no pricer is registered for the instrument's type: the value is
\* the 'price' entry of the stressed parameters, or 0 when they have none.
\* When a pricer is registered, the value is what that pricer returns for
\* the instrument and the stressed parameters.
C11_PricerFallback ==
    \A i \in 1..Len(applied) :
        IF Registered(applied[i])
        THEN applied[i].priced
                 = equity_pricer(InstrumentOf(applied[i]), applied[i].stressed_params)
        ELSE applied[i].priced
                 = Ok(IF "price" \in DOMAIN applied[i].stressed_params
                      THEN applied[i].stressed_params["price"]
                      ELSE Zero)

\* one run repriced through a registered pricer, and through the fallback
\* for parameters without a 'price' entry
C11_Witness ==
    /\ Ran
    /\ \E i \in 1..Len(applied) : Registered(applied[i])
    /\ \E i \in 1..Len(applied) :
           /\ ~Registered(applied[i])
           /\ "price" \notin DOMAIN applied[i].stressed_params
           /\ applied[i].priced = Ok(Zero)

(***************************************************************************)
(* Base parameters                                                         *)
(***************************************************************************)
\* the attribute that carries each of the five parameters
ParamAttr ==
    [price |-> "price", dividend_yield |-> "dividend_yield",
     volatility |-> "iv", time |-> "dte", interest_rate |-> "risk_free"]

\* the parameters an instrument exposes
Exposed(instrument) ==
    { k \in DOMAIN ParamAttr : hasattr(instrument, ParamAttr[k]) }

\* C12: the base parameters of every call are exactly the parameters the
\* instrument exposes among price (price), volatility (iv), time (dte),
\* interest_rate (risk_free) and dividend_yield (dividend_yield), each with
\* the attribute's value; an instrument exposing dividend_yield has a
\* 'dividend_yield' entry.
C12_BaseParams ==
    \A i \in 1..Len(applied) :
        /\ DOMAIN applied[i].base_params = Exposed(InstrumentOf(applied[i]))
        /\ \A k \in DOMAIN applied[i].base_params :
               applied[i].base_params[k] = InstrumentOf(applied[i]).attrs[ParamAttr[k]]

\* the positions whose instrument exposes none of the five parameters
Bare == { k \in 1..Len(portfolio) : Exposed(portfolio[k].instrument) = {} }

\* C13: a position whose instrument exposes none of the five parameters
\* still participates: the run returns, the position has a result, and
\* each of its repricings started from an empty parameter set and went
\* through the pricer or the default.
C13_BareInstrument ==
    (Ran /\ Bare # {}) =>
        /\ RunReturned
        /\ \A k \in Bare :
               /\ \E j \in 1..Len(results.position_results) :
                      results.position_results[j].position_id = portfolio[k].id
               /\ \A i \in 1..Len(applied) :
                      applied[i].position = k =>
                          /\ DOMAIN applied[i].base_params = {}
                          /\ applied[i].priced.ok

(***************************************************************************)
(* RiskArray.equidistant                                                   *)
(***************************************************************************)
\* 1 if the base point is included, else 0
BaseCount(include_base) == IF include_base THEN 1 ELSE 0

\* the documented array: -n_down*step .. -step, 0 iff
\* include_base, step .. n_up*step
EquidistantShape(a, n_up, n_down, step_pct, include_base) ==
    /\ Len(a.values) = n_down + n_up + BaseCount(include_base)
    /\ \A i \in 1..n_down : a.values[i] = RMul(R(i - n_down - 1), step_pct)
    /\ include_base => a.values[n_down + 1] = Zero
    /\ \A j \in 1..n_up :
           a.values[n_down + BaseCount(include_base) + j] = RMul(R(j), step_pct)
    /\ \A i \in 1..Len(a.values), j \in 1..Len(a.values) :
           i < j => RLt(a.values[i], a.values[j])
    /\ a.is_relative

\* the scenario holds exactly the array equidistant returns for these arguments
IsEquidistant(dimension, n_up, n_down, step_pct, include_base) ==
    /\ Len(scenario.risk_arrays) = 1
    /\ scenario.risk_arrays[1].dimension = dimension
    /\ scenario.risk_arrays[1]
           = equidistant(dimension, n_up, n_down, step_pct, include_base)

\* C14: for counts n_up, n_down >= 0 and a positive step, the array
\* RiskArray.equidistant returns holds -n_down*step .. -step, then 0 iff
\* include_base, then step .. n_up*step, in this order; it is ascending,
\* has n_down + n_up + (1 if include_base) values and is relative.
\* (PRICE, 2, 2, 0.05, true) gives [-0.10, -0.05, 0, 0.05, 0.10].
C14_Equidistant ==
    /\ \A dimension \in EquidistantDimensions, n_up \in 0..MaxSteps,
          n_down \in 0..MaxSteps, step_pct \in StepPcts, include_base \in BOOLEAN :
           IsEquidistant(dimension, n_up, n_down, step_pct, include_base)
               => EquidistantShape(scenario.risk_arrays[1], n_up, n_down,
                                   step_pct, include_base)
    /\ IsEquidistant("PRICE", 2, 2, Norm(1, 20), TRUE)
           => scenario.risk_arrays[1].values
                  = << Norm(-1, 10), Norm(-1, 20), Zero, Norm(1, 20), Norm(1, 10) >>

\* an equidistant array without the base point, with values on both sides
C14_Witness ==
    /\ scenario.name = "Equidistant"
    /\ IsEquidistant("PRICE", 2, 1, Norm(1, 20), FALSE)
    /\ scenario.risk_arrays[1].values
           = << Norm(-1, 20), Norm(1, 20), Norm(1, 10) >>

(***************************************************************************)
(* Empty shock axes                                                        *)
(***************************************************************************)
\* the scenario's axis is empty: in global mode one of its arrays, in
\* idiosyncratic mode the first array of some underlying, has no values
EmptyAxis ==
    IF Idiosyncratic
    THEN \E i \in 1..Len(scenario.underlying_risk_arrays) :
             /\ scenario.underlying_risk_arrays[i][2] # << >>
             /\ scenario.underlying_risk_arrays[i][2][1].values = << >>
    ELSE \E a \in 1..Len(scenario.risk_arrays) :
             scenario.risk_arrays[a].values = << >>

\* C16: a run over a scenario whose shock axis is empty does not fail; it
\* returns no stress points, and P&L and aggregation arrays of length 0.
C16_EmptyAxis ==
    (Ran /\ EmptyAxis) =>
        /\ RunReturned
        /\ results.stress_points = << >>
        /\ \A j \in 1..Len(results.position_results) :
               results.position_results[j].pnl_values = << >>
        /\ \A b \in 1..Len(results.aggregation_results) :
               results.aggregation_results[b][2] = << >>

(***************************************************************************)
(* run_scenarios                                                           *)
(***************************************************************************)
Batch == phase = "batch"
BatchReturned == Batch /\ results_dict.status = "ok"

\* the frame of one scenario run on its own: Ok(frame), or the error of the
\* run or of the conversion
FrameOf(scenario_results) ==
    IF scenario_results.status # "ok" THEN Raise(scenario_results.error)
    ELSE _scenario_results_to_dataframe(scenario_results)

FrameAt(i) == FrameOf(run_scenario(portfolio, pricing_models, scenarios[i]))

\* the place of the first and of the last scenario of a name in the list
FirstNamed(name) ==
    CHOOSE i \in 1..Len(scenarios) :
        /\ scenarios[i].name = name
        /\ \A j \in 1..(i - 1) : scenarios[j].name # name

LastNamed(name) ==
    CHOOSE i \in 1..Len(scenarios) :
        /\ scenarios[i].name = name
        /\ \A j \in (i + 1)..Len(scenarios) : scenarios[j].name # name

\* C15: run_scenarios runs the scenarios in list order, each on its own.
\* When it returns, the mapping has exactly one entry per distinct scenario
\* name, in the order the names first occur, and the entry of a name is
\* the tabular result of run_scenario for the last scenario of that name.
\* When it raises, the error is that of the first scenario in the list
\* whose run or conversion fails.
C15_RunScenarios ==
    /\ BatchReturned =>
           /\ DictKeys(results_dict.frames)
                  = { scenarios[i].name : i \in 1..Len(scenarios) }
           /\ \A a, b \in 1..Len(results_dict.frames) :
                  a < b => FirstNamed(results_dict.frames[a][1])
                               < FirstNamed(results_dict.frames[b][1])
           /\ \A e \in 1..Len(results_dict.frames) :
                  Ok(results_dict.frames[e][2])
                      = FrameAt(LastNamed(results_dict.frames[e][1]))
    /\ (Batch /\ ~BatchReturned) =>
           \E i \in 1..Len(scenarios) :
               /\ FrameAt(i) = Raise(results_dict.error)
               /\ \A j \in 1..(i - 1) : FrameAt(j).ok

\* two scenarios of one name and different results: one entry, the second's
C15_Witness ==
    /\ BatchReturned
    /\ Len(scenarios) = 2
    /\ scenarios[1].name = scenarios[2].name
    /\ Len(results_dict.frames) = 1
    /\ FrameAt(1).ok
    /\ FrameAt(1) # FrameAt(2)
    /\ Ok(results_dict.frames[1][2]) = FrameAt(2)

(***************************************************************************)
(* The tabular form                                                        *)
(***************************************************************************)
\* the frame df is the documented table of scenario_results
TableOf(df, scenario_results) ==
    /\ Len(df.rows) = Len(scenario_results.position_results)
                          + Len(scenario_results.aggregation_results)
    /\ Len(df.pnl_cols) = Len(scenario_results.stress_points)
    /\ \A p \in 1..Len(scenario_results.stress_points) :
           /\ df.pnl_cols[p] = Fmt3(scenario_results.stress_points[p])
           /\ \A j \in 1..Len(scenario_results.position_results) :
                  df.rows[j].cells[p]
                      = << scenario_results.position_results[j].pnl_values[p] >>

\* C17: every frame run_scenarios returns has one row per position and one
\* per aggregation bucket, and exactly one P&L column per shock point of
\* stress_points, named by the point's value formatted to three decimals
\* and holding, in a position's row, pnl_values at that point; this for
\* single-array and for multi-array scenarios alike.
C17_TabularForm ==
    BatchReturned =>
        \A e \in 1..Len(results_dict.frames) :
            TableOf(results_dict.frames[e][2],
                    run_scenario(portfolio, pricing_models,
                                 scenarios[LastNamed(results_dict.frames[e][1])]))

(***************************************************************************)
(* Inputs and results across calls                                         *)
(***************************************************************************)
\* what a run of the scenario returns, whatever was returned before
Fresh == Outcome(run_scenario(portfolio, pricing_models, scenario))

\* the step is a call of run_scenario
RunStep == phase \in {"built", "ran"} /\ phase' \in {"ran", "reran"}

\* the step is a call of run_scenarios
BatchStep == phase = "new" /\ phase' = "batch"

FullParams(instrument) ==
    [k \in Exposed(instrument) |-> instrument.attrs[ParamAttr[k]]]

\* the call shocked every dimension of its point whose parameter the
\* instrument exposes
FullyShocked(c) ==
    \A d \in DictKeys(c.stress_point) :
        RiskDimension[d] \in Exposed(InstrumentOf(c)) =>
            /\ RiskDimension[d] \in DOMAIN c.stressed_params
            /\ c.stressed_params[RiskDimension[d]]
                   = _apply_stress(FullParams(InstrumentOf(c)), c.stress_point,
                                   InstrumentOf(c), scenario.factor)[RiskDimension[d]]

\* the documented display value of a shock point of a multi-array scenario
DisplayValue(point) ==
    IF DictHas(point, "PRICE") THEN DictGet(point, "PRICE") ELSE point[1][2]

\* C19: in a returned run of a non-idiosyncratic scenario the display axis
\* has one entry per shock point, in order: the raw values of the array
\* when there is exactly one, else the point's PRICE value if it has one
\* and the value of its first dimension otherwise.  The P&L at index i of
\* each position comes from the full shock point i: every dimension of
\* the point whose parameter the instrument exposes is shocked.
C19_DisplayAxis ==
    (RunReturned /\ ~Idiosyncratic) =>
        /\ Len(results.stress_points) = Len(get_stress_points(scenario))
        /\ Len(scenario.risk_arrays) = 1 =>
               results.stress_points = scenario.risk_arrays[1].values
        /\ Len(scenario.risk_arrays) # 1 =>
               \A i \in 1..Len(results.stress_points) :
                   results.stress_points[i]
                       = DisplayValue(get_stress_points(scenario)[i])
        /\ \A k \in 1..Len(portfolio) :
               /\ Len(CallsOf(k)) = Len(get_stress_points(scenario))
               /\ \A i \in 1..Len(CallsOf(k)) :
                      /\ CallsOf(k)[i].stress_point = get_stress_points(scenario)[i]
                      /\ CallsOf(k)[i].priced
                             = Ok(RAdd(RDiv(results.position_results[k].pnl_values[i],
                                            portfolio[k].quantity),
                                       portfolio[k].instrument.attrs.price))
                      /\ FullyShocked(CallsOf(k)[i])

(***************************************************************************)
(* _apply_stress                                                           *)
(***************************************************************************)
\* the parameters the shock point of a call targets
Targeted(c) == { RiskDimension[d] : d \in DictKeys(c.stress_point) }

\* C20: the mapping _apply_stress returns has exactly the keys of the base
\* mapping, and the base mapping is still what the instrument gives; a
\* parameter no dimension of the shock point names is passed through
\* unchanged; a dimension whose parameter the mapping lacks adds no key
\* and raises nothing.
C20_ApplyStress ==
    \A i \in 1..Len(applied) :
        /\ DOMAIN applied[i].stressed_params = DOMAIN applied[i].base_params
        /\ Ok(applied[i].base_params)
               = _get_instrument_params(InstrumentOf(applied[i]))
        /\ \A k \in DOMAIN applied[i].base_params :
               k \notin Targeted(applied[i]) =>
                   applied[i].stressed_params[k] = applied[i].base_params[k]
        /\ applied[i].stressed_params
               = _apply_stress(applied[i].base_params, applied[i].stress_point,
                               InstrumentOf(applied[i]), scenario.factor)

\* one call shocked a parameter and met a dimension whose parameter is
\* lacking; another left an untargeted parameter as it was
C20_Witness ==
    /\ \E i \in 1..Len(applied) :
           /\ Targeted(applied[i]) \ DOMAIN applied[i].base_params # {}
           /\ \E k \in DOMAIN applied[i].base_params :
                  applied[i].stressed_params[k] # applied[i].base_params[k]
    /\ \E i \in 1..Len(applied) :
           /\ DOMAIN applied[i].base_params \ Targeted(applied[i]) # {}
           /\ \E k \in Targeted(applied[i]) \cap DOMAIN applied[i].base_params :
                  applied[i].stressed_params[k] # applied[i].base_params[k]

(***************************************************************************)
(* Idiosyncratic mode: each position against its own underlying's array    *)
(***************************************************************************)
\* position k's underlying has an entry in underlying_risk_arrays
HasEntry(k) == DictHas(scenario.underlying_risk_arrays, UnderlyingOf(k))

\* the values of the first risk array of position k's underlying
OwnValues(k) ==
    DictGet(scenario.underlying_risk_arrays, UnderlyingOf(k))[1].values

\* the P&L array of position k comes from its own underlying's values: one
\* entry per value, entry i repriced under the point {PRICE: i-th value}
OwnShocks(k) ==
    /\ Len(results.position_results[k].pnl_values) = Len(OwnValues(k))
    /\ Len(CallsOf(k)) = Len(OwnValues(k))
    /\ \A i \in 1..Len(OwnValues(k)) :
           /\ CallsOf(k)[i].stress_point = << << "PRICE", OwnValues(k)[i] >> >>
           /\ CallsOf(k)[i].priced.ok
           /\ results.position_results[k].pnl_values[i]
                  = Pnl(portfolio[k], CallsOf(k)[i].priced.val)

\* C21: in a returned idiosyncratic run every position's stress_points is
\* the common fraction axis.  A position whose underlying has an entry has
\* pnl_values[i] equal to its P&L under a PRICE shock of the i-th value of
\* that underlying's own first risk array, index for index with the
\* fraction axis; a position whose underlying has none has zeros, as many
\* as the fraction axis has entries.
C21_OwnArray ==
    (RunReturned /\ Idiosyncratic) =>
        \A k \in 1..Len(portfolio) :
            /\ results.position_results[k].stress_points = results.stress_points
            /\ HasEntry(k) =>
                   /\ OwnShocks(k)
                   /\ Len(results.position_results[k].pnl_values)
                          = Len(results.stress_points)
            /\ ~HasEntry(k) =>
                   results.position_results[k].pnl_values
                       = [i \in 1..Len(results.stress_points) |-> Zero]

(***************************************************************************)
(* position_results                                                        *)
(***************************************************************************)
\* the grouping symbol of an instrument: underlying, else symbol, else
\* 'unknown'
GroupingSymbol(instrument) ==
    IF "underlying" \in DOMAIN instrument.attrs THEN instrument.attrs.underlying
    ELSE IF "symbol" \in DOMAIN instrument.attrs THEN instrument.attrs.symbol
    ELSE "unknown"

\* C22: in global and in idiosyncratic mode the position_results a run
\* returns holds exactly one StressResult per portfolio position, in
\* portfolio order; the k-th carries the k-th position's id and quantity,
\* the grouping symbol of its instrument, base_value = quantity * the
\* instrument's price, and the scenario's name.
C22_PositionResults ==
    RunReturned =>
        /\ Len(results.position_results) = Len(portfolio)
        /\ \A k \in 1..Len(portfolio) :
               /\ results.position_results[k].position_id = portfolio[k].id
               /\ results.position_results[k].quantity = portfolio[k].quantity
               /\ results.position_results[k].underlying
                      = GroupingSymbol(portfolio[k].instrument)
               /\ results.position_results[k].base_value
                      = RMul(portfolio[k].quantity,
                             portfolio[k].instrument.attrs.price)
               /\ results.position_results[k].scenario_name = scenario.name

\* a returned idiosyncratic run over two positions, one grouped under
\* 'unknown' and one under its underlying
C22_Witness ==
    /\ RunReturned
    /\ Idiosyncratic
    /\ Len(portfolio) = 2
    /\ results.position_results[1].underlying = "unknown"
    /\ results.position_results[2].underlying = "AAPL"
    /\ "underlying" \in DOMAIN portfolio[2].instrument.attrs
    /\ results.position_results[2].pnl_values # << >>

====
